---- MODULE Spec2Model ----
(***************************************************************************)
(* Action1 macOS application upload tool (src/_api/action1_app_deploy.py): *)
(* the API client with its cached token, the resumable chunked upload, the *)
(* filename parser and the per-organization workflow of main().            *)
(*                                                                         *)
(* Text is a sequence of one-character strings.  Python's None is the      *)
(* string None, an absent JSON field or header the string Absent.          *)
(***************************************************************************)
EXTENDS Integers, Sequences, FiniteSets, TLC

VARIABLES
    pc,                  \* position of the running entry point
    ret,                 \* where upload_file_in_chunks returns to
    raised,              \* the exception that ended the run, or "none"
    exit_code,           \* main's return value, -1 while it has not returned
    now,                 \* time.time(), in seconds
    token,               \* Action1Client._token
    token_expiry_epoch,  \* Action1Client._token_expiry_epoch
    env,                 \* the run's inputs: environment, arguments, file
    app,                 \* (app_name, app_ver) parsed from the filename
    orgs,                \* main: orgs, the organization listing
    raw,                 \* choose_orgs: the operator's selection
    selected_orgs,       \* main: selected_orgs
    all_packages,        \* main: all_packages
    pkg_match,           \* main: pkg_match
    k,                   \* main: index of the organization being processed
    package_id,          \* main: package_id
    version_id,          \* main: version_id
    platform,            \* the platform variant being uploaded
    up,                  \* upload_file_in_chunks: url, sent, PUTs issued, state
    last,                \* the last client operation: what it saw and did
    nreq,                \* number of network requests issued so far
    failed,              \* the first operation that failed, or "none"
    log                  \* the organization-scoped requests issued, in order

vars == <<pc, ret, raised, exit_code, now, token, token_expiry_epoch, env, app,
          orgs, raw, selected_orgs, all_packages, pkg_match, k, package_id,
          version_id, platform, up, last, nreq, failed, log>>

(***************************************************************************)
(* Bounds of the model.                                                    *)
(***************************************************************************)
MaxNow == 2
MaxOrgs == 2
MaxSel == 2
MaxPkgs == 2
MaxPrefixLen == 3
MaxChunkMb == 2
MaxTotalMb == 2
MaxCalls == 4

(***************************************************************************)
(* Program constants.                                                      *)
(***************************************************************************)
MiB == 1024 * 1024
DefaultChunkMb == 24
DefaultExpiresIn == 300
ExpiryMargin == 10
ErrorStatus == 400
ResumeStatus == 308
ExitMissingInput == 2
ExitSuccess == 0

None == "<None>"
Absent == "<absent>"

\* Python truthiness of an optional string: None and "" are falsy.
Truthy(v) == v \notin {None, Absent, ""}

\* dict.get(key): None for an absent key.
DictGet(v) == IF v = Absent THEN None ELSE v

\* a or b
PyOr(a, b) == IF Truthy(a) THEN a ELSE b

Max(a, b) == IF a >= b THEN a ELSE b
Min(a, b) == IF a <= b THEN a ELSE b

(***************************************************************************)
(* Text helpers.                                                           *)
(***************************************************************************)
LowerChar(c) ==
    CASE c = "A" -> "a"
      [] c = "Z" -> "z"
      [] c = "I" -> "i"
      [] c = "P" -> "p"
      [] OTHER   -> c

\* str.lower()
Lower(s) == [i \in 1..Len(s) |-> LowerChar(s[i])]

DotZip == <<".", "z", "i", "p">>
Newline == "\n"
Hyphen == "-"

\* Positions of s holding character c.
Positions(s, c) == {i \in 1..Len(s) : s[i] = c}

SetMax(S) == CHOOSE x \in S : \A y \in S : y <= x

(***************************************************************************)
(* parse_app_zip_name: re.match(r"^(?P<name>.+)-(?P<ver>[^-]+)\.zip$",     *)
(* base, re.IGNORECASE).  "." matches any character but a newline, [^-]    *)
(* any character but a hyphen, "$" the end of the text or the position     *)
(* before a newline that ends it.  The version holds no hyphen, so the     *)
(* hyphen of a match is the last one before the extension.                 *)
(***************************************************************************)
\* Where the ".zip" of a match ends: Len(base), Len(base) - 1, or 0 for none.
ZipEnd(base) ==
    LET n == Len(base) IN
    IF n >= 4 /\ Lower(SubSeq(base, n - 3, n)) = DotZip THEN n
    ELSE IF n >= 5 /\ base[n] = Newline
                   /\ Lower(SubSeq(base, n - 4, n - 1)) = DotZip THEN n - 1
    ELSE 0

\* ok = FALSE is the ValueError of line 220.
ParseAppZipName(base) ==
    LET e    == ZipEnd(base)
        stem == IF e = 0 THEN <<>> ELSE SubSeq(base, 1, e - 4)
        hy   == Positions(stem, Hyphen)
        i    == IF hy = {} THEN 0 ELSE SetMax(hy)
        name == SubSeq(stem, 1, i - 1)
        ver  == SubSeq(stem, i + 1, Len(stem))
    IN  IF /\ e > 0
           /\ i > 1
           /\ i < Len(stem)
           /\ \A j \in 1..Len(name) : name[j] # Newline
        THEN [ok |-> TRUE, name |-> name, ver |-> ver]
        ELSE [ok |-> FALSE, name |-> <<>>, ver |-> <<>>]

(***************************************************************************)
(* The service's answers.                                                  *)
(***************************************************************************)
Statuses == {200, 308, 399, 400, 500}
MainStatuses == {200, 400}
Validities == {0, 10, 11}
ServiceTokens == {"", "tA", "tB"}

\* A credential-exchange response: status, access_token (or Absent) and
\* expires_in: a number ("num"), not a number ("nan") or absent.
AuthRejected == [status |-> 401, access_token |-> Absent, ei_kind |-> "absent", expires_in |-> 0]
AuthOk(a, kd, v) == [status |-> 200, access_token |-> a, ei_kind |-> kd, expires_in |-> v]
AuthResponses ==
    {AuthRejected, AuthOk(Absent, "num", 11), AuthOk("", "num", 11),
     AuthOk("tA", "absent", 0)}
    \cup {AuthOk(a, "num", v) : a \in ServiceTokens \ {""}, v \in Validities}
    \cup {AuthOk(a, "nan", 0) : a \in ServiceTokens \ {""}}

(***************************************************************************)
(* Action1Client: token cache.                                             *)
(***************************************************************************)
TokenExpiryNoMargin(t, v) == t + v
TokenExpiryUnclamped(t, v) == t + v - ExpiryMargin

\* line 67: time.time() + max(0, expires_in - 10)
TokenExpiry(t, v) == t + Max(0, v - ExpiryMargin)

\* line 66: int(data.get("expires_in", 300)); "nan" raises ValueError.
ExpiresIn(r) == IF r.ei_kind = "absent" THEN DefaultExpiresIn ELSE r.expires_in

\* authenticate, lines 52-67: the cache after the call and what it raised.
\* The token is assigned (line 64) before expires_in is converted (line 66).
Authenticate(tok, exp, t, r) ==
    IF r.status >= ErrorStatus
    THEN [token |-> tok, expiry |-> exp, raised |-> "AuthFailed"]
    ELSE IF r.access_token = Absent
    THEN [token |-> tok, expiry |-> exp, raised |-> "KeyError"]
    ELSE IF r.ei_kind = "nan"
    THEN [token |-> r.access_token, expiry |-> exp, raised |-> "ValueError:expires_in"]
    ELSE [token |-> r.access_token, expiry |-> TokenExpiry(t, ExpiresIn(r)),
          raised |-> "none"]

NeedsAuthLate(tok, exp, t) == ~Truthy(tok) \/ t > exp

\* line 70: not self._token or time.time() >= self._token_expiry_epoch
NeedsAuth(tok, exp, t) == ~Truthy(tok) \/ t >= exp

\* ensure_auth, lines 69-71.
EnsureAuth(tok, exp, t, r) ==
    IF NeedsAuth(tok, exp, t)
    THEN [c |-> Authenticate(tok, exp, t, r), exchanges |-> 1]
    ELSE [c |-> [token |-> tok, expiry |-> exp, raised |-> "none"], exchanges |-> 0]

GetRaisesAbove(s) == s > ErrorStatus

\* The JSON body of a creation response, reduced to its identifier fields;
\* NoBody for a call that got no such response.
NoBody == [id |-> Absent, alt |-> Absent]

\* line 77: get raises on the status; post and put_bytes return the response.
GetRaises(s) == s >= ErrorStatus

\* _headers, lines 44-45: get and post need a truthy token; put_bytes builds
\* its own Authorization header (line 92).
HeadersRaise(op, tok) == op \in {"get", "post"} /\ ~Truthy(tok)

\* get / post / put_bytes, lines 73-94, with the response status s of the
\* request and the credential-exchange response r (used if one is needed).
ApiCall(op, tok, exp, t, r, s) ==
    LET e == EnsureAuth(tok, exp, t, r)
        base == [op |-> op, token |-> e.c.token, expiry |-> e.c.expiry,
                 exchanges |-> e.exchanges, auth_status |-> r.status,
                 ensured |-> (e.c.raised = "none"),
                 expires_in |-> IF e.exchanges = 1 /\ e.c.raised = "none"
                                THEN ExpiresIn(r) ELSE -1,
                 location |-> Absent, sent |-> FALSE, bearer |-> None, status |-> 0,
                 granted |-> None, body |-> NoBody, raised |-> e.c.raised]
    IN  IF e.c.raised # "none" THEN base
        ELSE IF HeadersRaise(op, e.c.token)
        THEN [base EXCEPT !.raised = "NotAuthenticated"]
        ELSE [base EXCEPT !.sent = TRUE, !.bearer = e.c.token, !.status = s,
                          !.raised = IF op = "get" /\ GetRaises(s)
                                     THEN "ApiError" ELSE "none"]

\* A direct call of authenticate (line 297), in the same shape.
AuthCall(tok, exp, t, r) ==
    LET c == Authenticate(tok, exp, t, r)
    IN  [op |-> "authenticate", token |-> c.token, expiry |-> c.expiry, exchanges |-> 1,
         auth_status |-> r.status, ensured |-> FALSE,
         expires_in |-> IF c.raised = "none" THEN ExpiresIn(r) ELSE -1,
         location |-> Absent, sent |-> FALSE,
         bearer |-> None, status |-> 0, granted |-> None, body |-> NoBody,
         raised |-> c.raised]

NoCall ==
    [op |-> "none", token |-> None, expiry |-> 0, exchanges |-> 0,
     auth_status |-> 0, ensured |-> FALSE, expires_in |-> -1,
     location |-> Absent, sent |-> FALSE, bearer |-> None, status |-> 0,
     granted |-> None, body |-> NoBody, raised |-> "none"]

\* Number of network requests a call issued.
Requests(c) == c.exchanges + (IF c.sent THEN 1 ELSE 0)

(***************************************************************************)
(* Inputs of a run.                                                        *)
(***************************************************************************)
\* All sequences over S of length at most n.
SeqsUpTo(S, n) == UNION {[1..m -> S] : m \in 0..n}

\* The organization listing of n organizations; an organization is its id.
OrgListing(n) == [i \in 1..n |-> 100 + i]

\* What the operator types at the prompt of choose_orgs: 'all' or a comma
\* list of integers (0-based indices, in range or not).
Selections ==
    {[all |-> TRUE, idxs |-> <<>>]}
    \cup {[all |-> FALSE, idxs |-> q] : q \in SeqsUpTo(-1..MaxOrgs, MaxSel)}

\* choose_orgs testing only ix >= len(orgs): a negative index counts from
\* the end of the listing, as Python's orgs[ix] does.
ChooseOrgsFromEnd(os, sel) ==
    IF sel.all THEN [ok |-> TRUE, selected |-> os]
    ELSE IF \E j \in 1..Len(sel.idxs) :
                sel.idxs[j] >= Len(os) \/ sel.idxs[j] < 0 - Len(os)
    THEN [ok |-> FALSE, selected |-> <<>>]
    ELSE [ok |-> TRUE,
          selected |-> [j \in 1..Len(sel.idxs) |->
                          IF sel.idxs[j] < 0 THEN os[Len(os) + sel.idxs[j] + 1]
                          ELSE os[sel.idxs[j] + 1]]]

\* choose_orgs, lines 229-250 (Python's orgs[ix] is orgs[ix + 1] here).
\* ok = FALSE is the ValueError of line 248, raised at the first bad index.
ChooseOrgs(os, sel) ==
    IF sel.all THEN [ok |-> TRUE, selected |-> os]
    ELSE IF \E j \in 1..Len(sel.idxs) : sel.idxs[j] < 0 \/ sel.idxs[j] >= Len(os)
    THEN [ok |-> FALSE, selected |-> <<>>]
    ELSE [ok |-> TRUE,
          selected |-> [j \in 1..Len(sel.idxs) |-> os[sel.idxs[j] + 1]]]

\* Package names of the tenant and the package listings built from them;
\* the package at position i has id "pk<i>".
PkgNames == {<<"a">>, <<"a", "a">>}
PkgIds == <<"pk1", "pk2", "pk3", "pk4">>
PkgListings ==
    {[i \in 1..Len(q) |-> [id |-> PkgIds[i], name |-> q[i]]] :
        q \in SeqsUpTo(PkgNames, MaxPkgs)}

PkgMatchLast(pkgs, app_name) ==
    LET hits == {i \in 1..Len(pkgs) : Lower(pkgs[i].name) = Lower(app_name)}
    IN  IF hits = {} THEN <<>> ELSE <<pkgs[SetMax(hits)]>>

\* line 305: the first package whose lower-cased name is the lower-cased
\* app name; <<>> is None.
PkgMatch(pkgs, app_name) ==
    LET hits == {i \in 1..Len(pkgs) : Lower(pkgs[i].name) = Lower(app_name)}
    IN  IF hits = {} THEN <<>>
        ELSE <<pkgs[CHOOSE i \in hits : \A j \in hits : i <= j]>>

\* The body of a creation response: the field "id" and the alternative
\* field ("package_id" or "version_id"), each a value or Absent.  The
\* service gives the object created for the i-th selected organization a
\* fresh identifier.
NewPkgIds == <<"p1", "p2", "p3", "p4">>
NewVerIds == <<"v1", "v2", "v3", "v4">>
AltVerIds == <<"w1", "w2", "w3", "w4">>
PkgBodies(i) == [id : {Absent, "", NewPkgIds[i]}, alt : {Absent, NewPkgIds[i]}]
VerBodies(i) == [id : {Absent, "", NewVerIds[i]}, alt : {Absent, "", AltVerIds[i]}]

CreatedIdAltFirst(body) == PyOr(DictGet(body.alt), DictGet(body.id))

\* lines 325 and 338: created.get("id") or created.get("<alt>")
CreatedId(body) == PyOr(DictGet(body.id), DictGet(body.alt))

\* lines 119, 130, 211: a creation POST raises on the status.
CreateRaises(s) == s >= ErrorStatus

\* The X-Upload-Location header of an upload-start response.
UploadLocations == {Absent, "", "loc1", "loc2"}

UploadInitRaisesOnStatus(s, loc) == s >= ErrorStatus \/ ~Truthy(DictGet(loc))

\* lines 152-154: resp.headers.get("X-Upload-Location"); raise if falsy.
UploadInitRaises(s, loc) == ~Truthy(DictGet(loc))

(***************************************************************************)
(* upload_file_in_chunks, lines 157-182.                                   *)
(***************************************************************************)
\* line 277: chunk_bytes = chunk_mb * 1024 * 1024
ChunkBytes(chunk_mb) == chunk_mb * MiB

\* line 164: f.read(chunk_size) on a file with `remaining` bytes left; a
\* negative size other than -1 raises ValueError (-2 stands for it).
ReadLen(chunk_size, remaining) ==
    IF chunk_size = -1 THEN remaining
    ELSE IF chunk_size < 0 THEN -2
    ELSE Min(chunk_size, remaining)

ChunkNeverRejected(s) == FALSE
ChunkRejectedAbove(s) == s > ErrorStatus /\ s \notin {ResumeStatus}

\* line 181: resp.status_code >= 400 and resp.status_code not in (308,)
ChunkRejected(s) == s >= ErrorStatus /\ s \notin {ResumeStatus}

ChunkHeadersEndExclusive(sent, n, total) ==
    [start |-> sent, end |-> sent + n, length |-> n, total |-> total]

\* lines 168-175: the Content-Range and Content-Length of a chunk of n bytes
\* read when `sent` bytes had been sent.
ChunkHeaders(sent, n, total) ==
    [start |-> sent, end |-> sent + n - 1, length |-> n, total |-> total]

IdleUpload == [url |-> None, total |-> 0, sent |-> 0, puts |-> <<>>, state |-> "idle"]

(***************************************************************************)
(* Input sets.                                                             *)
(***************************************************************************)
ValidBase == <<"A", "-", "1", ".", "z", "i", "p">>
NoVersionBase == <<"A", ".", "z", "i", "p">>
AllOrgs == [all |-> TRUE, idxs |-> <<>>]
MainAuthResponses == {AuthRejected, AuthOk("tA", "num", 11)}

\* The inputs of a run: the environment and arguments (creds, file, base,
\* deploy, chunk_mb), the size of the file (total), and what the run will
\* be given: the number of organizations listed (n_orgs), the operator's
\* selection (sel), the package listing (pkgs) and a service that answers
\* in any way ("any") or accepts every request ("sound").
Envs(creds, files, bases, deploys, chunks, totals, ns, sels, listings, services) ==
    [creds : creds, file : files, base : bases, deploy : deploys,
     chunk_mb : chunks, total : totals, n_orgs : ns, sel : sels,
     pkgs : listings, service : services]

\* What the service of a run of main may answer.
AuthAnswers ==
    IF env.service = "any" THEN MainAuthResponses ELSE {AuthOk("tA", "num", 11)}
StatusAnswers == IF env.service = "any" THEN MainStatuses ELSE {200}
PkgAnswers(i) ==
    IF env.service = "any" THEN PkgBodies(i)
    ELSE {[id |-> NewPkgIds[i], alt |-> Absent]}
VerAnswers(i) ==
    IF env.service = "any" THEN VerBodies(i)
    ELSE {[id |-> NewVerIds[i], alt |-> Absent]}
LocationAnswers == IF env.service = "any" THEN UploadLocations ELSE {"loc1"}

\* Runs that differ in what main validates first.
ValidationEnvs ==
    Envs(BOOLEAN, BOOLEAN, {ValidBase, NoVersionBase}, {FALSE}, {1}, {1},
         {1}, {AllOrgs}, {<<>>}, {"any"})
\* Runs over every listed organization that differ in the number of
\* organizations, the deploy flag, the chunk size and the package found.
FlowEnvs ==
    Envs({TRUE}, {TRUE}, {ValidBase}, BOOLEAN, {0, 1}, {MiB + 1},
         0..MaxOrgs, {AllOrgs}, {<<>>, <<[id |-> "pk1", name |-> <<"a">>]>>}, {"any"})
\* Runs that differ in the operator's selection.
SelectionEnvs ==
    Envs({TRUE}, {TRUE}, {ValidBase}, {FALSE}, {1}, {1}, {MaxOrgs},
         Selections, {<<>>}, {"sound"})
\* Runs that differ in the package listing.
ResolveEnvs ==
    Envs({TRUE}, {TRUE}, {ValidBase}, {FALSE}, {1}, {0}, {1}, {AllOrgs},
         PkgListings, {"any"})
\* The operator names the first organization twice and the package exists.
RepeatEnvs ==
    Envs({TRUE}, {TRUE}, {ValidBase}, {FALSE}, {1}, {1}, {1},
         {[all |-> FALSE, idxs |-> <<0, 0>>]},
         {<<[id |-> "pk1", name |-> <<"a">>]>>}, {"sound"})
MainEnvs ==
    ValidationEnvs \cup FlowEnvs \cup SelectionEnvs \cup ResolveEnvs \cup RepeatEnvs

\* Runs of main with every kind of chunk size (negative, zero, positive)
\* for one organization and a service that answers in any way, and runs
\* over several organizations with a service that accepts every request.
LiveEnvs ==
    ValidationEnvs
    \cup Envs({TRUE}, {TRUE}, {ValidBase}, {TRUE}, {-1, 0, 1}, {MiB + 1},
              {0, 1}, {AllOrgs}, {<<>>}, {"any"})
    \cup Envs({TRUE}, {TRUE}, {ValidBase}, {TRUE}, {1}, {MiB + 1},
              2..MaxOrgs, {AllOrgs}, {<<>>}, {"sound"})

\* upload_file_in_chunks on its own: chunk sizes and file sizes around the
\* chunk boundaries, and the worked example of 60,000,000 bytes.
UploadEnvs ==
    Envs({TRUE}, {TRUE}, {ValidBase}, {FALSE}, -1..MaxChunkMb,
         {0, 1} \cup {m * MiB + d : m \in 1..MaxTotalMb, d \in {-1, 0, 1}},
         {0}, {AllOrgs}, {<<>>}, {"any"})
    \cup Envs({TRUE}, {TRUE}, {ValidBase}, {FALSE}, {DefaultChunkMb},
              {60000000}, {0}, {AllOrgs}, {<<>>}, {"any"})

ClientEnvs ==
    Envs({TRUE}, {TRUE}, {ValidBase}, {FALSE}, {DefaultChunkMb}, {0}, {0},
         {AllOrgs}, {<<>>}, {"any"})

PrefixChars == {"A", "a", Hyphen, Newline}
Endings ==
    {<<>>, DotZip, <<".", "Z", "I", "P">>, <<".", "z", "i">>, <<"z", "i", "p">>,
     DotZip \o <<Newline>>, DotZip \o DotZip, <<Newline>> \o DotZip}
ParseBases == {q \o e : q \in SeqsUpTo(PrefixChars, MaxPrefixLen), e \in Endings}
ParseEnvs ==
    Envs({TRUE}, {TRUE}, ParseBases, {FALSE}, {DefaultChunkMb}, {0}, {0},
         {AllOrgs}, {<<>>}, {"any"})

(***************************************************************************)
(* Initial states: a fresh client (lines 39-40) and the entry point.       *)
(***************************************************************************)
InitWith(entry, envs) ==
    /\ pc = entry
    /\ env \in envs
    /\ ret = "returned"
    /\ raised = "none"
    /\ exit_code = -1
    /\ now = 1
    /\ token = None
    /\ token_expiry_epoch = 0
    /\ app = [name |-> <<>>, ver |-> <<>>]
    /\ orgs = <<>>
    /\ raw = [all |-> FALSE, idxs |-> <<>>]
    /\ selected_orgs = <<>>
    /\ all_packages = <<>>
    /\ pkg_match = <<>>
    /\ k = 0
    /\ package_id = None
    /\ version_id = None
    /\ platform = "-"
    /\ up = IF entry = "upload"
            THEN [IdleUpload EXCEPT !.url = "loc1", !.total = env.total,
                                    !.state = "running"]
            ELSE IdleUpload
    /\ last = NoCall
    /\ nreq = 0
    /\ failed = "none"
    /\ log = <<>>

Init == InitWith("main", MainEnvs)
InitLive == InitWith("main", LiveEnvs)
InitUpload == InitWith("upload", UploadEnvs)
InitClient == InitWith("client", ClientEnvs)
InitParse == InitWith("parse", ParseEnvs)

(***************************************************************************)
(* Shared pieces of the actions.                                           *)
(***************************************************************************)
\* The client after call c, and the bookkeeping of what was sent; granted
\* is the token of the latest authenticate that returned.
Apply(c) ==
    /\ token' = c.token
    /\ token_expiry_epoch' = c.expiry
    /\ last' = [c EXCEPT !.granted = IF c.exchanges = 1 /\ c.expires_in >= 0
                                     THEN c.token ELSE last.granted]
    /\ nreq' = nreq + Requests(c)

\* An exception leaves main (nothing catches it): the run is over.
Raise(ex) ==
    /\ pc' = "raised"
    /\ raised' = ex

\* The first failed operation, from what the service answered: `why` names
\* the failure of the request itself, "none" if it did not fail.
NoteFailure(c, why) ==
    failed' = IF failed # "none" THEN failed
              ELSE IF c.exchanges = 1 /\ c.auth_status >= 400 THEN "auth"
              ELSE IF c.sent THEN why
              ELSE "none"

\* An organization-scoped request, as the service sees it.
Entry(kind, plat, pkg, ver) ==
    [kind |-> kind, k |-> k,
     org |-> IF k \in 1..Len(selected_orgs) THEN selected_orgs[k] ELSE 0,
     platform |-> plat,
     package_id |-> pkg, version_id |-> ver]

Logged(c, e) == log' = IF c.sent THEN Append(log, e) ELSE log

(***************************************************************************)
(* main, lines 253-365.                                                    *)
(***************************************************************************)
\* main with the test of the file placed after a1.authenticate().
MainStartFileTestLate ==
    /\ pc = "main"
    /\ LET r == ParseAppZipName(env.base) IN
       IF ~env.creds \/ ~env.file
       THEN /\ pc' = "exit"
            /\ exit_code' = ExitMissingInput
            /\ nreq' = IF env.creds THEN nreq + 1 ELSE nreq
            /\ UNCHANGED <<raised, app>>
       ELSE IF ~r.ok
       THEN /\ Raise("ValueError:filename")
            /\ UNCHANGED <<exit_code, app, nreq>>
       ELSE /\ app' = [name |-> r.name, ver |-> r.ver]
            /\ pc' = "authenticate"
            /\ UNCHANGED <<raised, exit_code, nreq>>
    /\ UNCHANGED <<ret, now, token, token_expiry_epoch, env, orgs, raw,
                   selected_orgs, all_packages, pkg_match, k, package_id,
                   version_id, platform, up, last, failed, log>>

\* lines 263-287: credentials, the file, the filename; no network.
MainStart ==
    /\ pc = "main"
    /\ LET r == ParseAppZipName(env.base) IN
       IF ~env.creds \/ ~env.file
       THEN /\ pc' = "exit"
            /\ exit_code' = ExitMissingInput
            /\ UNCHANGED <<raised, app>>
       ELSE IF ~r.ok
       THEN /\ Raise("ValueError:filename")
            /\ UNCHANGED <<exit_code, app>>
       ELSE /\ app' = [name |-> r.name, ver |-> r.ver]
            /\ pc' = "authenticate"
            /\ UNCHANGED <<raised, exit_code>>
    /\ UNCHANGED <<ret, now, token, token_expiry_epoch, env, orgs, raw,
                   selected_orgs, all_packages, pkg_match, k, package_id,
                   version_id, platform, up, last, nreq, failed, log>>

\* line 297: a1.authenticate()
MainAuthenticate ==
    /\ pc = "authenticate"
    /\ \E r \in AuthAnswers :
        LET c == AuthCall(token, token_expiry_epoch, now, r) IN
        /\ Apply(c)
        /\ NoteFailure(c, "none")
        /\ IF c.raised # "none" THEN Raise(c.raised)
           ELSE pc' = "list_organizations" /\ UNCHANGED raised
    /\ UNCHANGED <<ret, exit_code, now, env, app, orgs, raw, selected_orgs,
                   all_packages, pkg_match, k, package_id, version_id,
                   platform, up, log>>

\* line 298: orgs = a1.list_organizations()
ListOrganizations ==
    /\ pc = "list_organizations"
    /\ \E r \in AuthAnswers, s \in StatusAnswers :
        LET c == ApiCall("get", token, token_expiry_epoch, now, r, s) IN
        /\ Apply(c)
        /\ NoteFailure(c, IF s >= 400 THEN "get" ELSE "none")
        /\ Logged(c, Entry("list_organizations", "-", None, None))
        /\ IF c.raised # "none"
           THEN Raise(c.raised) /\ UNCHANGED orgs
           ELSE /\ orgs' = OrgListing(env.n_orgs)
                /\ pc' = "choose_orgs"
                /\ UNCHANGED raised
    /\ UNCHANGED <<ret, exit_code, now, env, app, raw, selected_orgs,
                   all_packages, pkg_match, k, package_id, version_id,
                   platform, up>>

\* line 299: selected_orgs = choose_orgs(orgs); no network.
ChooseOrgsStep ==
    /\ pc = "choose_orgs"
    /\ LET r == ChooseOrgs(orgs, env.sel) IN
        /\ raw' = env.sel
        /\ IF ~r.ok
           THEN Raise("ValueError:selection") /\ UNCHANGED selected_orgs
           ELSE /\ selected_orgs' = r.selected
                /\ pc' = "list_packages"
                /\ UNCHANGED raised
    /\ UNCHANGED <<ret, exit_code, now, token, token_expiry_epoch, env, app,
                   orgs, all_packages, pkg_match, k, package_id, version_id,
                   platform, up, last, nreq, failed, log>>

\* lines 302-305: all_packages = a1.list_packages(); pkg_match = ...
ListPackages ==
    /\ pc = "list_packages"
    /\ \E r \in AuthAnswers, s \in StatusAnswers :
        LET c == ApiCall("get", token, token_expiry_epoch, now, r, s) IN
        /\ Apply(c)
        /\ NoteFailure(c, IF s >= 400 THEN "get" ELSE "none")
        /\ Logged(c, Entry("list_packages", "-", None, None))
        /\ IF c.raised # "none"
           THEN Raise(c.raised) /\ UNCHANGED <<all_packages, pkg_match, k>>
           ELSE /\ all_packages' = env.pkgs
                /\ pkg_match' = PkgMatch(env.pkgs, app.name)
                /\ k' = 1
                /\ pc' = "org_loop"
                /\ UNCHANGED raised
    /\ UNCHANGED <<ret, exit_code, now, env, app, orgs, raw, selected_orgs,
                   package_id, version_id, platform, up>>

\* The loop with the package created for an earlier organization reused.
OrgLoopReusing ==
    /\ pc = "org_loop"
    /\ IF k > Len(selected_orgs)
       THEN /\ pc' = "exit"
            /\ exit_code' = ExitSuccess
            /\ UNCHANGED package_id
       ELSE /\ package_id' = IF pkg_match # <<>> THEN pkg_match[1].id ELSE package_id
            /\ pc' = IF pkg_match # <<>> \/ Truthy(package_id)
                     THEN "create_version" ELSE "create_package"
            /\ UNCHANGED exit_code
    /\ UNCHANGED <<ret, raised, now, token, token_expiry_epoch, env, app, orgs,
                   raw, selected_orgs, all_packages, pkg_match, k, version_id,
                   platform, up, last, nreq, failed, log>>

\* lines 307-318 and 364-365: the next organization, or Done.
OrgLoop ==
    /\ pc = "org_loop"
    /\ IF k > Len(selected_orgs)
       THEN /\ pc' = "exit"
            /\ exit_code' = ExitSuccess
            /\ UNCHANGED package_id
       ELSE /\ package_id' = IF pkg_match # <<>> THEN pkg_match[1].id ELSE None
            /\ pc' = IF pkg_match # <<>> THEN "create_version" ELSE "create_package"
            /\ UNCHANGED exit_code
    /\ UNCHANGED <<ret, raised, now, token, token_expiry_epoch, env, app, orgs,
                   raw, selected_orgs, all_packages, pkg_match, k, version_id,
                   platform, up, last, nreq, failed, log>>

\* lines 319-328: create_repo_package and the identifier of the new package.
CreatePackage ==
    /\ pc = "create_package"
    /\ \E r \in AuthAnswers, s \in StatusAnswers, body \in PkgAnswers(k) :
        LET c  == ApiCall("post", token, token_expiry_epoch, now, r, s)
            id == CreatedId(body)
        IN
        /\ Apply(c)
        /\ NoteFailure(c, IF s >= 400 THEN "create_package"
                          ELSE IF body.id \in {Absent, ""} /\ body.alt = Absent
                          THEN "no_package_id" ELSE "none")
        /\ Logged(c, Entry("create_package", "-", None, None))
        /\ IF c.raised # "none"
           THEN Raise(c.raised) /\ UNCHANGED package_id
           ELSE IF CreateRaises(s)
           THEN Raise("CreatePackageFailed") /\ UNCHANGED package_id
           ELSE IF ~Truthy(id)
           THEN Raise("NoPackageId") /\ package_id' = id
           ELSE /\ package_id' = id
                /\ pc' = "create_version"
                /\ UNCHANGED raised
    /\ UNCHANGED <<ret, exit_code, now, env, app, orgs, raw, selected_orgs,
                   all_packages, pkg_match, k, version_id, platform, up>>

\* lines 337-341: create_version and the identifier of the new version.
CreateVersion ==
    /\ pc = "create_version"
    /\ \E r \in AuthAnswers, s \in StatusAnswers, body \in VerAnswers(k) :
        LET c0 == ApiCall("post", token, token_expiry_epoch, now, r, s)
            c  == IF c0.sent THEN [c0 EXCEPT !.body = body] ELSE c0
            id == CreatedId(body)
        IN
        /\ Apply(c)
        /\ NoteFailure(c, IF s >= 400 THEN "create_version"
                          ELSE IF body.id \in {Absent, ""} /\ body.alt \in {Absent, ""}
                          THEN "no_version_id" ELSE "none")
        /\ Logged(c, Entry("create_version", "-", package_id, None))
        /\ IF c.raised # "none"
           THEN Raise(c.raised) /\ UNCHANGED version_id
           ELSE IF CreateRaises(s)
           THEN Raise("CreateVersionFailed") /\ UNCHANGED version_id
           ELSE IF ~Truthy(id)
           THEN Raise("NoVersionId") /\ version_id' = id
           ELSE /\ version_id' = id
                /\ pc' = "start_upload_intel"
                /\ UNCHANGED raised
    /\ UNCHANGED <<ret, exit_code, now, env, app, orgs, raw, selected_orgs,
                   all_packages, pkg_match, k, package_id, platform, up>>

\* lines 349-350 and 354-355: start_resumable_upload for platform variant
\* plat, then the call of upload_file_in_chunks (lines 158-160).
StartUpload(plat, at, after) ==
    /\ pc = at
    /\ \E r \in AuthAnswers, s \in StatusAnswers, loc \in LocationAnswers :
        LET c0 == ApiCall("post", token, token_expiry_epoch, now, r, s)
            c  == IF c0.sent THEN [c0 EXCEPT !.location = loc] ELSE c0
        IN
        /\ Apply(c)
        /\ NoteFailure(c, IF loc \in {Absent, ""} THEN "upload_init" ELSE "none")
        /\ Logged(c, Entry("start_upload", plat, package_id, version_id))
        /\ platform' = plat
        /\ IF c.raised # "none"
           THEN Raise(c.raised) /\ UNCHANGED <<up, ret>>
           ELSE IF UploadInitRaises(s, loc)
           THEN Raise("UploadInitFailed") /\ UNCHANGED <<up, ret>>
           ELSE /\ up' = [url |-> loc, total |-> env.total, sent |-> 0,
                           puts |-> <<>>, state |-> "running"]
                /\ ret' = after
                /\ pc' = "upload"
                /\ UNCHANGED raised
    /\ UNCHANGED <<exit_code, now, env, app, orgs, raw, selected_orgs,
                   all_packages, pkg_match, k, package_id, version_id>>

StartUploadIntelAsArm ==
    StartUpload("Mac_AppleSilicon", "start_upload_intel", "start_upload_arm")
StartUploadIntel == StartUpload("Mac_Intel", "start_upload_intel", "start_upload_arm")
StartUploadArm == StartUpload("Mac_AppleSilicon", "start_upload_arm", "uploads_done")

\* lines 163-182, one turn of the loop that reads a chunk: the read, the
\* PUT of the chunk and the test of its status.
UploadChunkWith(responses, statuses) ==
    /\ pc = "upload"
    /\ LET n == ReadLen(ChunkBytes(env.chunk_mb), env.total - up.sent) IN
       /\ n # 0
       /\ IF n < 0
          THEN /\ Raise("ValueError:read")
               /\ up' = [up EXCEPT !.state = "raised"]
               /\ UNCHANGED <<token, token_expiry_epoch, last, nreq, failed, log>>
          ELSE \E r \in responses, s \in statuses :
               LET c == ApiCall("put_bytes", token, token_expiry_epoch, now, r, s)
                   h == ChunkHeaders(up.sent, n, up.total)
                   bad == c.raised # "none" \/ ChunkRejected(s)
               IN
               /\ Apply(c)
               /\ NoteFailure(c, IF s >= 400 THEN "chunk" ELSE "none")
               /\ Logged(c, Entry("put", platform, package_id, version_id))
               /\ up' = [up EXCEPT !.sent = up.sent + n,
                                   !.puts = IF c.sent THEN Append(up.puts, h)
                                            ELSE up.puts,
                                   !.state = IF bad THEN "raised" ELSE "running"]
               /\ IF c.raised # "none" THEN Raise(c.raised)
                  ELSE IF ChunkRejected(s) THEN Raise("ChunkUploadFailed")
                  ELSE UNCHANGED <<pc, raised>>
    /\ UNCHANGED <<ret, exit_code, now, env, app, orgs, raw, selected_orgs,
                   all_packages, pkg_match, k, package_id, version_id, platform>>

UploadChunk == UploadChunkWith(AuthAnswers, StatusAnswers)
UploadChunkAlone == UploadChunkWith(AuthResponses, Statuses)

\* The loop going round again when the read yields no bytes.
UploadReturnLooping ==
    /\ pc = "upload"
    /\ ReadLen(ChunkBytes(env.chunk_mb), env.total - up.sent) = 0
    /\ UNCHANGED vars

\* lines 164-166: the read yields no bytes; the loop and the call end.
UploadReturn ==
    /\ pc = "upload"
    /\ ReadLen(ChunkBytes(env.chunk_mb), env.total - up.sent) = 0
    /\ up' = [up EXCEPT !.state = "returned"]
    /\ pc' = ret
    /\ UNCHANGED <<ret, raised, exit_code, now, token, token_expiry_epoch, env,
                   app, orgs, raw, selected_orgs, all_packages, pkg_match, k,
                   package_id, version_id, platform, last, nreq, failed, log>>

\* lines 357-359: both variants are uploaded; the deploy flag decides.
AfterUploads ==
    /\ pc = "uploads_done"
    /\ IF env.deploy
       THEN pc' = "create_policy" /\ UNCHANGED k
       ELSE pc' = "org_loop" /\ k' = k + 1
    /\ UNCHANGED <<ret, raised, exit_code, now, token, token_expiry_epoch, env,
                   app, orgs, raw, selected_orgs, all_packages, pkg_match,
                   package_id, version_id, platform, up, last, nreq, failed, log>>

\* lines 360-362: create_deploy_policy_instance.
CreatePolicy ==
    /\ pc = "create_policy"
    /\ \E r \in AuthAnswers, s \in StatusAnswers :
        LET c == ApiCall("post", token, token_expiry_epoch, now, r, s) IN
        /\ Apply(c)
        /\ NoteFailure(c, IF s >= 400 THEN "create_policy" ELSE "none")
        /\ Logged(c, Entry("create_policy", "-", package_id, version_id))
        /\ IF c.raised # "none"
           THEN Raise(c.raised) /\ UNCHANGED k
           ELSE IF CreateRaises(s)
           THEN Raise("CreatePolicyFailed") /\ UNCHANGED k
           ELSE /\ k' = k + 1
                /\ pc' = "org_loop"
                /\ UNCHANGED raised
    /\ UNCHANGED <<ret, exit_code, now, env, app, orgs, raw, selected_orgs,
                   all_packages, pkg_match, package_id, version_id, platform, up>>

\* Time passes between two steps of a running entry point.
Tick ==
    /\ pc \notin {"exit", "raised", "returned", "parse"}
    /\ now < MaxNow
    /\ now' = now + 1
    /\ UNCHANGED <<pc, ret, raised, exit_code, token, token_expiry_epoch, env,
                   app, orgs, raw, selected_orgs, all_packages, pkg_match, k,
                   package_id, version_id, platform, up, last, nreq, failed, log>>

(***************************************************************************)
(* The client used on its own: any sequence of calls, an exception of one  *)
(* call being caught by the caller.                                        *)
(***************************************************************************)
ClientFrame ==
    UNCHANGED <<pc, ret, raised, exit_code, now, env, app, orgs, raw,
                selected_orgs, all_packages, pkg_match, k, package_id,
                version_id, platform, up, failed, log>>

ClientAuthenticate ==
    /\ pc = "client"
    /\ nreq < MaxCalls
    /\ \E r \in AuthResponses : Apply(AuthCall(token, token_expiry_epoch, now, r))
    /\ ClientFrame

ClientCall(op) ==
    /\ pc = "client"
    /\ nreq < MaxCalls
    /\ \E r \in AuthResponses, s \in Statuses :
        Apply(ApiCall(op, token, token_expiry_epoch, now, r, s))
    /\ ClientFrame

ClientGet == ClientCall("get")
ClientPost == ClientCall("post")
ClientPutBytes == ClientCall("put_bytes")

(***************************************************************************)
(* parse_app_zip_name called on its own.                                   *)
(***************************************************************************)
ParseStep ==
    /\ pc = "parse"
    /\ LET r == ParseAppZipName(env.base) IN
       IF r.ok
       THEN /\ app' = [name |-> r.name, ver |-> r.ver]
            /\ pc' = "returned"
            /\ UNCHANGED raised
       ELSE /\ Raise("ValueError:filename")
            /\ UNCHANGED app
    /\ UNCHANGED <<ret, exit_code, now, token, token_expiry_epoch, env, orgs,
                   raw, selected_orgs, all_packages, pkg_match, k, package_id,
                   version_id, platform, up, last, nreq, failed, log>>

(***************************************************************************)
(* Specifications.                                                         *)
(***************************************************************************)
Next ==
    \/ MainStart
    \/ MainAuthenticate
    \/ ListOrganizations
    \/ ChooseOrgsStep
    \/ ListPackages
    \/ OrgLoop
    \/ CreatePackage
    \/ CreateVersion
    \/ StartUploadIntel
    \/ StartUploadArm
    \/ UploadChunk
    \/ UploadReturn
    \/ AfterUploads
    \/ CreatePolicy
    \/ Tick

Spec == Init /\ [][Next]_vars

\* The steps of main itself.  Every network call returns (each has a
\* timeout, line 38) and the operator answers the prompts, so a step of
\* main that can be taken is taken.
MainStep ==
    \/ MainStart
    \/ MainAuthenticate
    \/ ListOrganizations
    \/ ChooseOrgsStep
    \/ ListPackages
    \/ OrgLoop
    \/ CreatePackage
    \/ CreateVersion
    \/ StartUploadIntel
    \/ StartUploadArm
    \/ UploadChunk
    \/ UploadReturn
    \/ AfterUploads
    \/ CreatePolicy

NextLive == MainStep \/ Tick
SpecLive == InitLive /\ [][NextLive]_vars /\ WF_vars(MainStep)

NextUpload == UploadChunkAlone \/ UploadReturn \/ Tick
SpecUpload == InitUpload /\ [][NextUpload]_vars

NextClient == ClientAuthenticate \/ ClientGet \/ ClientPost \/ ClientPutBytes \/ Tick
SpecClient == InitClient /\ [][NextClient]_vars

NextParse == ParseStep
SpecParse == InitParse /\ [][NextParse]_vars

(***************************************************************************)
(* Properties.                                                             *)
(***************************************************************************)
ApiOps == {"get", "post", "put_bytes"}

\* A step that is a call of get, post or put_bytes (time stands still
\* during a step; a call leaves its record in `last`).
ApiCallStep == now' = now /\ last'.op \in ApiOps /\ (last' # last \/ nreq' # nreq)

RECURSIVE SumLengths(_)
SumLengths(p) == IF p = <<>> THEN 0 ELSE p[1].length + SumLengths(Tail(p))

\* The Content-Ranges of p start at 0, follow one another without gap or
\* overlap and end at total - 1.
Contiguous(p, total) ==
    p # <<>> =>
        /\ p[1].start = 0
        /\ \A i \in 2..Len(p) : p[i].start = p[i - 1].end + 1
        /\ p[Len(p)].end = total - 1

\* C1: when upload_file_in_chunks returns without error, whatever the file
\* size and the configured chunk size, the chunk PUTs it issued start at 0,
\* are contiguous, end at total - 1 and their lengths sum to total.
C1_ChunksCoverFile ==
    up.state = "returned" =>
        /\ Contiguous(up.puts, up.total)
        /\ SumLengths(up.puts) = up.total

\* C2: a call's ensure_auth issues no credential exchange when a token is
\* cached and the instant is strictly before the cached expiry, and exactly
\* one when the cache is empty or the instant is at or past the expiry.
C2_TokenReuse ==
    [][ApiCallStep =>
          IF token \notin {None, ""} /\ now < token_expiry_epoch
          THEN last'.exchanges = 0
          ELSE last'.exchanges = 1]_vars

\* A call that reused the cached token after an earlier exchange, and a call
\* that renewed a token that had reached its expiry.
C2_Witness ==
    /\ last.op \in ApiOps
    /\ last.exchanges = 0
    /\ last.sent
    /\ nreq >= 3

\* C3 as stated: whenever ensure_auth returns normally, whatever validity
\* the exchange returned, a non-empty token is cached and the instant is
\* strictly before its cached expiry.
C3_ValidOnReturn ==
    [][ApiCallStep /\ last'.ensured =>
          token' \notin {None, ""} /\ now' < token_expiry_epoch']_vars

\* C3 amended: whenever ensure_auth returns normally, a non-empty token is
\* cached and the instant is strictly before its expiry, unless the exchange
\* it performed returned an empty token or a validity of at most 10 seconds;
\* with such a validity the cached expiry is the instant of the exchange.
C3_ValidOnReturnAmended ==
    [][ApiCallStep /\ last'.ensured =>
          /\ (last'.exchanges = 1 /\ last'.expires_in <= ExpiryMargin)
                => token_expiry_epoch' = now'
          /\ ~(last'.exchanges = 1 /\ (last'.expires_in <= ExpiryMargin \/ token' = ""))
                => (token' \notin {None, ""} /\ now' < token_expiry_epoch')]_vars

\* A call whose ensure_auth exchanged credentials for a token valid 11 s.
C3_Witness ==
    /\ last.op \in ApiOps
    /\ last.ensured
    /\ last.exchanges = 1
    /\ last.expires_in = 11
    /\ token = "tA"
    /\ now < token_expiry_epoch

\* C4: after the first operation that fails (credential exchange rejected,
\* GET or creation with status >= 400, creation response without an
\* identifier, upload start without location, chunk PUT rejected) no further
\* network request is issued.
C4_AbortOnFirstFailure ==
    [][failed # "none" => (nreq' = nreq /\ log' = log /\ pc' = "raised")]_vars

\* A rejected chunk of the first variant of the first of two organizations,
\* with bytes of the file still unsent.
C4_Witness ==
    /\ failed = "chunk"
    /\ pc = "raised"
    /\ platform = "Mac_Intel"
    /\ up.sent < up.total
    /\ k < Len(selected_orgs)

\* A step that issued a chunk PUT.
PutStep == Len(up'.puts) = Len(up.puts) + 1

\* C5: a chunk PUT answered with a status below 400 (308 included) is
\* accepted and the uploader goes on to the next read; one answered with a
\* status of 400 or more raises the chunk-upload error, after which no PUT
\* is issued.
C5_ChunkAcceptance ==
    [][/\ PutStep =>
            IF last'.status < 400
            THEN pc' = "upload" /\ raised' = "none" /\ up'.state = "running"
            ELSE pc' = "raised" /\ raised' = "ChunkUploadFailed"
       /\ raised = "ChunkUploadFailed" => up'.puts = up.puts]_vars

\* A first chunk answered 308 with more of the file to read.
C5_Witness ==
    /\ last.op = "put_bytes"
    /\ last.status = 308
    /\ pc = "upload"
    /\ Len(up.puts) = 1
    /\ up.sent < up.total

\* A step that issued an upload-start request.
StartUploadStep ==
    /\ Len(log') = Len(log) + 1
    /\ log'[Len(log')].kind = "start_upload"

\* C6: start_resumable_upload fails with the upload-init error exactly when
\* the response has no or an empty X-Upload-Location header, whatever its
\* status; then no chunk PUT follows; otherwise the location returned is the
\* header's value, also for a status of 400 or more.
C6_UploadInit ==
    [][/\ StartUploadStep =>
            LET h == last'.location IN
            /\ (raised' = "UploadInitFailed") <=> (h \in {Absent, ""})
            /\ h \in {Absent, ""} => (pc' = "raised" /\ up' = up)
            /\ h \notin {Absent, ""} =>
                    (pc' = "upload" /\ up'.url = h /\ up'.puts = <<>>)
       /\ raised = "UploadInitFailed" => log' = log]_vars

\* An upload start answered 400 with a location: the upload begins.
C6_Witness ==
    /\ last.status = 400
    /\ last.location = "loc1"
    /\ pc = "upload"
    /\ up.url = "loc1"

Intel == "Mac_Intel"
Arm == "Mac_AppleSilicon"

IsOrgEntry(e) == e.k > 0
OrgLog == SelectSeq(log, IsOrgEntry)

\* The first request for an organization, and the last one.
StartsSegment(e) ==
    e.kind = IF pkg_match = <<>> THEN "create_package" ELSE "create_version"
EndsSegment(e) ==
    IF env.deploy THEN e.kind = "create_policy"
    ELSE e.platform = Arm /\ e.kind \in {"start_upload", "put"}

\* Request b may follow request a for the same organization.
Follows(a, b) ==
    \/ a.kind = "create_package" /\ b.kind = "create_version"
    \/ a.kind = "create_version" /\ b.kind = "start_upload" /\ b.platform = Intel
    \/ /\ a.kind \in {"start_upload", "put"} /\ a.platform = Intel
       /\ \/ b.kind = "put" /\ b.platform = Intel
          \/ b.kind = "start_upload" /\ b.platform = Arm
    \/ /\ a.kind \in {"start_upload", "put"} /\ a.platform = Arm
       /\ \/ b.kind = "put" /\ b.platform = Arm
          \/ b.kind = "create_policy" /\ env.deploy

\* C7: the requests for one organization come in the order create package
\* (only without a matching package), create version, start Intel, Intel
\* PUTs, start Apple-Silicon, Apple-Silicon PUTs, create policy (only with
\* the deploy flag); the first request for the next organization comes
\* after the last one for this organization.
C7_RequestOrder ==
    LET q == OrgLog IN
    \A i \in 1..Len(q) :
        IF i = 1 THEN q[1].k = 1 /\ StartsSegment(q[1])
        ELSE \/ q[i].k = q[i - 1].k /\ Follows(q[i - 1], q[i])
             \/ /\ q[i].k = q[i - 1].k + 1
                /\ EndsSegment(q[i - 1])
                /\ StartsSegment(q[i])

\* A finished run over two organizations with policies and chunk PUTs.
C7_Witness ==
    /\ pc = "exit"
    /\ exit_code = ExitSuccess
    /\ Len(selected_orgs) = 2
    /\ env.deploy
    /\ \E i \in 1..Len(log) : log[i].kind = "put" /\ log[i].k = 2

Count(kind, j) ==
    Cardinality({i \in 1..Len(log) : log[i].kind = kind /\ log[i].k = j})

\* C8: in a run that completes with no package of the artifact's name in
\* the listing, each selected organization gets one create-package request,
\* one create-version request and two upload sessions, one per platform;
\* with the deploy flag one create-policy request naming the package and
\* version created for that organization, without the flag none.
C8_PerOrganization ==
    (/\ pc = "exit"
     /\ exit_code = ExitSuccess
     /\ \A i \in 1..Len(all_packages) :
            Lower(all_packages[i].name) # Lower(app.name))
    => \A j \in 1..Len(selected_orgs) :
        /\ Count("create_package", j) = 1
        /\ Count("create_version", j) = 1
        /\ Count("start_upload", j) = 2
        /\ \A plat \in {Intel, Arm} :
              \E i \in 1..Len(log) :
                /\ log[i].kind = "start_upload"
                /\ log[i].k = j
                /\ log[i].platform = plat
        /\ \A i \in 1..Len(log) : log[i].k = j => log[i].org = selected_orgs[j]
        /\ Count("create_policy", j) = IF env.deploy THEN 1 ELSE 0
        /\ \A i \in 1..Len(log) :
              (log[i].kind = "create_policy" /\ log[i].k = j) =>
                /\ log[i].package_id = NewPkgIds[j]
                /\ log[i].version_id \in {NewVerIds[j], AltVerIds[j]}

\* A finished run over two organizations, with policies, that created a
\* package in each.
C8_Witness ==
    /\ pc = "exit"
    /\ exit_code = ExitSuccess
    /\ Len(selected_orgs) = 2
    /\ env.deploy
    /\ pkg_match = <<>>
    /\ Count("create_package", 1) = 1
    /\ Count("create_package", 2) = 1

\* C9 as stated: every input validation failure (filename, selection) is
\* raised before any network request, and exit code 2 is returned before
\* any network request.
C9_ValidationBeforeNetwork ==
    /\ raised \in {"ValueError:filename", "ValueError:selection"} => nreq = 0
    /\ exit_code = ExitMissingInput => nreq = 0

\* C9 amended: a malformed filename is raised, and exit code 2 returned,
\* before any network request; an out-of-range selection is raised after
\* the credential exchange and the organization listing and before any
\* other request.
C9_ValidationOrder ==
    /\ raised = "ValueError:filename" => nreq = 0
    /\ exit_code = ExitMissingInput => nreq = 0
    /\ raised = "ValueError:selection" =>
          /\ nreq >= 2
          /\ Len(log) = 1
          /\ log[1].kind = "list_organizations"

\* An out-of-range selection, raised after the listing.
C9_Witness ==
    /\ raised = "ValueError:selection"
    /\ nreq >= 2
    /\ \E j \in 1..Len(raw.idxs) : raw.idxs[j] >= Len(orgs)

\* The filename has the form NAME-VERSION.zip with the hyphen at position i.
HasForm(b, i) ==
    /\ 1 < i
    /\ i < Len(b) - 4
    /\ b[i] = Hyphen
    /\ Lower(SubSeq(b, Len(b) - 3, Len(b))) = DotZip
    /\ \A j \in (i + 1)..(Len(b) - 4) : b[j] # Hyphen

\* C10: for a filename NAME-VERSION.zip with non-empty NAME and non-empty
\* hyphen-free VERSION parse_app_zip_name returns (NAME, VERSION); for any
\* other filename it raises the input validation error.
C10_ParsesNameVersion ==
    pc \in {"returned", "raised"} =>
        LET b == env.base IN
        IF \E i \in 1..Len(b) : HasForm(b, i)
        THEN /\ pc = "returned"
             /\ \A i \in 1..Len(b) : HasForm(b, i) =>
                    /\ app.name = SubSeq(b, 1, i - 1)
                    /\ app.ver = SubSeq(b, i + 1, Len(b) - 4)
        ELSE raised = "ValueError:filename"

\* Positions of the listing whose name is the artifact name up to case.
NameHits ==
    {i \in 1..Len(all_packages) : Lower(all_packages[i].name) = Lower(app.name)}

FirstHit == CHOOSE i \in NameHits : \A j \in NameHits : i <= j

\* C11: once the packages are listed, a package is matched if and only if
\* some package of the listing has the artifact name up to letter case; the
\* match is the first such package in listing order, and every selected
\* organization's create-version request names that package (no package is
\* created for any organization).
C11_PackageResolution ==
    k >= 1 =>
        /\ (pkg_match # <<>>) <=> (NameHits # {})
        /\ NameHits # {} =>
              /\ pkg_match = <<all_packages[FirstHit]>>
              /\ \A i \in 1..Len(log) :
                    /\ log[i].kind # "create_package"
                    /\ log[i].kind = "create_version" =>
                          log[i].package_id = all_packages[FirstHit].id
        /\ NameHits = {} =>
              \A i \in 1..Len(log) :
                  log[i].kind = "create_version" =>
                      log[i].package_id = NewPkgIds[log[i].k]

\* A listing with two packages of the artifact's name in another case: the
\* create-version request names the first.
C11_Witness ==
    /\ Len(all_packages) = 2
    /\ NameHits = {1, 2}
    /\ app.name = <<"A">>
    /\ \E i \in 1..Len(log) :
          log[i].kind = "create_version" /\ log[i].package_id = "pk1"

\* The step of main that calls choose_orgs.
ChooseStep == pc = "choose_orgs" /\ pc' # "choose_orgs"

\* C12: choose_orgs on a listing of n organizations raises the input
\* validation error and selects nothing when the comma list holds an index
\* i < 0 or i >= n, and then the only request of the run besides the
\* credential exchange is the organization listing; with in-range indices
\* only it returns the organizations at those indices in the order given,
\* and with 'all' the whole listing.
C12_ChooseOrgs ==
    [][ChooseStep =>
          LET n == Len(orgs)
              q == env.sel
          IN
          /\ IF q.all
             THEN selected_orgs' = orgs /\ pc' = "list_packages"
             ELSE IF \E j \in 1..Len(q.idxs) : q.idxs[j] < 0 \/ q.idxs[j] >= n
             THEN /\ raised' = "ValueError:selection"
                  /\ pc' = "raised"
                  /\ selected_orgs' = <<>>
             ELSE /\ selected_orgs' = [j \in 1..Len(q.idxs) |-> orgs[q.idxs[j] + 1]]
                  /\ pc' = "list_packages"
          /\ raised' = "ValueError:selection" =>
                /\ \A i \in 1..Len(log') : log'[i].kind = "list_organizations"
                /\ nreq' = nreq]_vars

\* A list with an in-range index followed by a negative one: the error is
\* raised and nothing is selected.
C12_Witness ==
    /\ raw = [all |-> FALSE, idxs |-> <<0, -1>>]
    /\ Len(orgs) = 2
    /\ raised = "ValueError:selection"
    /\ selected_orgs = <<>>

\* C13: for every status s of the response to the request a call sent, get
\* raises the API error when s >= 400 and returns when s < 400; post and
\* put_bytes return the response whatever s is.
C13_StatusHandling ==
    [][ApiCallStep /\ last'.sent =>
          /\ last'.op = "get" =>
                IF last'.status >= 400 THEN last'.raised = "ApiError"
                ELSE last'.raised = "none"
          /\ last'.op \in {"post", "put_bytes"} => last'.raised = "none"]_vars

\* put_bytes returned a response of status 500 to its caller.
C13_Witness ==
    /\ pc = "client"
    /\ last.op = "put_bytes"
    /\ last.sent
    /\ last.status = 500
    /\ last.raised = "none"

\* A step in which authenticate ran (called directly or by ensure_auth) and
\* returned.
AuthenticatedStep ==
    /\ now' = now
    /\ nreq' # nreq
    /\ last'.exchanges = 1
    /\ last'.expires_in >= 0

\* C14 as stated: after every successful authenticate at instant now whose
\* response gives a validity of v seconds, v >= 0, the cached expiry is
\* now + v - 10.
C14_ExpiryMargin ==
    [][AuthenticatedStep =>
          token_expiry_epoch' = now + last'.expires_in - ExpiryMargin]_vars

\* C14 amended: the cached expiry is now + max(0, v - 10): now + v - 10 for
\* v >= 10 and now for v < 10.
C14_ExpiryMarginClamped ==
    [][AuthenticatedStep =>
          LET v == last'.expires_in IN
          /\ v >= ExpiryMargin => token_expiry_epoch' = now + v - ExpiryMargin
          /\ v < ExpiryMargin => token_expiry_epoch' = now]_vars

\* A successful authenticate whose response gave a validity of 0 seconds.
C14_Witness ==
    /\ last.exchanges = 1
    /\ last.raised = "none"
    /\ last.expires_in = 0
    /\ token_expiry_epoch = now
    /\ token = "tB"

\* A step in which authenticate ran, whether it returned or raised.
AuthenticateStep ==
    /\ now' = now
    /\ nreq' # nreq
    /\ last'.exchanges = 1

\* C15: after any call of authenticate, returning or raising, the cached
\* pair (token, expiry) is either the pair held before the call or the pair
\* derived from the new response (authenticate returned and the expiry is
\* the one computed from the response's validity), never a mix of the two.
C15_WholesaleReplace ==
    [][AuthenticateStep =>
          \/ /\ token' = token
             /\ token_expiry_epoch' = token_expiry_epoch
          \/ /\ last'.expires_in >= 0
             /\ token' = last'.token
             /\ token_expiry_epoch' = TokenExpiry(now, last'.expires_in)]_vars

\* ceil(a / b) for b > 0.
CeilDiv(a, b) == (a + b - 1) \div b

\* C16: in an upload with a positive chunk size c, every chunk PUT but the
\* last has length c, the last has length total - start with 1 <= length
\* <= c, each PUT's Content-Length is end - start + 1 of its Content-Range,
\* and a completed upload issued ceil(total / c) PUTs; for total =
\* 60,000,000 and c = 25,165,824 that is three PUTs, the last of 9,668,352
\* bytes.
C16_ChunkLengths ==
    env.chunk_mb > 0 =>
        LET c == ChunkBytes(env.chunk_mb)
            p == up.puts
        IN
        /\ \A i \in 1..Len(p) :
              /\ p[i].length = p[i].end - p[i].start + 1
              /\ p[i].total = up.total
              /\ IF p[i].end = up.total - 1
                 THEN /\ p[i].length = up.total - p[i].start
                      /\ 1 <= p[i].length
                      /\ p[i].length <= c
                 ELSE /\ p[i].length = c
                      /\ p[i].end < up.total - 1
        /\ up.state = "returned" => Len(p) = CeilDiv(up.total, c)
        /\ (up.state = "returned" /\ up.total = 60000000 /\ c = 25165824) =>
              /\ Len(p) = 3
              /\ p[1] = [start |-> 0, end |-> 25165823, length |-> 25165824,
                         total |-> 60000000]
              /\ p[2] = [start |-> 25165824, end |-> 50331647,
                         length |-> 25165824, total |-> 60000000]
              /\ p[3] = [start |-> 50331648, end |-> 59999999,
                         length |-> 9668352, total |-> 60000000]

\* The worked example, completed.
C16_Witness ==
    /\ up.state = "returned"
    /\ up.total = 60000000
    /\ env.chunk_mb = DefaultChunkMb
    /\ Len(up.puts) = 3
    /\ up.puts[3].length = 9668352

\* C17: in any sequence of get, post and put_bytes calls with time passing
\* between them, a call that sends its request has run ensure_auth first
\* and sends as bearer token the token returned by the most recent
\* successful credential exchange.
C17_BearerIsLatestToken ==
    [][ApiCallStep /\ last'.sent =>
          /\ last'.ensured
          /\ last'.bearer = last'.granted]_vars

\* C17, the upload: a chunk PUT whose ensure_auth renewed the token starts
\* at the offset the previous chunks reached and goes to the same location.
C17_RefreshKeepsOffset ==
    [][PutStep /\ last'.exchanges = 1 =>
          /\ up'.url = up.url
          /\ up'.puts[Len(up'.puts)].start = up.sent
          /\ up'.sent = up.sent + up'.puts[Len(up'.puts)].length]_vars

\* A step that issued a create-version request.
CreateVersionStep ==
    /\ Len(log') = Len(log) + 1
    /\ log'[Len(log')].kind = "create_version"

\* C18: after a create-version request answered with a status below 400 the
\* workflow goes on to the upload start only if the response holds a
\* non-empty identifier under id or under version_id, id being taken when
\* both are there; otherwise it fails with the missing-identifier error and
\* no upload start is requested; a status of 400 or more fails the run
\* whatever the body holds.
C18_VersionIdentifier ==
    [][/\ CreateVersionStep =>
            LET b == last'.body IN
            IF last'.status >= 400
            THEN /\ raised' = "CreateVersionFailed"
                 /\ pc' = "raised"
                 /\ version_id' = version_id
            ELSE IF b.id \notin {Absent, ""}
            THEN pc' = "start_upload_intel" /\ version_id' = b.id
            ELSE IF b.alt \notin {Absent, ""}
            THEN pc' = "start_upload_intel" /\ version_id' = b.alt
            ELSE raised' = "NoVersionId" /\ pc' = "raised"
       /\ raised \in {"NoVersionId", "CreateVersionFailed"} => log' = log]_vars

\* A response holding both fields: the workflow goes on with the value of id.
C18_Witness ==
    /\ last.body = [id |-> "v1", alt |-> "w1"]
    /\ last.status = 200
    /\ version_id = "v1"
    /\ pc = "start_upload_intel"

\* C19: whatever the operator selects (in-range indices or 'all'), no two
\* create-version requests of a run are for the same organization and
\* package: each organization is processed at most once.
C19_OncePerOrganization ==
    \A i, j \in 1..Len(log) :
        (i < j /\ log[i].kind = "create_version" /\ log[j].kind = "create_version")
            => <<log[i].org, log[i].package_id>> # <<log[j].org, log[j].package_id>>

\* The PUT of the last byte range has been issued.
LastRangeSent ==
    /\ up.puts # <<>>
    /\ up.puts[Len(up.puts)].end = up.total - 1

\* C20: with every network call returning, every call of
\* upload_file_in_chunks ends (it returns or raises), whatever the chunk
\* size; after the PUT of the last byte range it issues no request and
\* returns; and every run of main ends, with Done or with an error.
C20_Terminates ==
    /\ <>(pc \in {"exit", "raised"})
    /\ (pc = "upload") ~> (pc # "upload")
    /\ [][(pc = "upload" /\ LastRangeSent) =>
            /\ nreq' = nreq
            /\ log' = log
            /\ pc' \in {"upload", ret}
            /\ raised' = "none"]_vars

\* A run over two organizations that uploaded the file in chunks of 1 MiB
\* and reached Done.
C20_Witness ==
    /\ pc = "exit"
    /\ exit_code = ExitSuccess
    /\ env.chunk_mb = 1
    /\ Len(selected_orgs) = 2
    /\ up.state = "returned"
    /\ LastRangeSent
    /\ Len(up.puts) = 2

====
